---- MODULE Spec2Model ----
(***************************************************************************)
(* Fused cross-entropy loss (annotated_examples/cross_entropy.py):         *)
(* calculate_settings, the kernels _cross_entropy_forward and              *)
(* _cross_entropy_backward, the autograd wrapper Fast_CrossEntropyLoss,    *)
(* fast_cross_entropy_loss and reference_cross_entropy_loss.               *)
(*                                                                         *)
(* float32 values are fixed-point integers with ONE units per 1.0; exp,    *)
(* log and tanh are computed in that arithmetic (range reduction plus a    *)
(* series), so that two different ways of computing the same quantity      *)
(* agree only up to rounding.  -inf is the value NegInf.                   *)
(***************************************************************************)
EXTENDS Integers, Sequences, FiniteSets, TLC

\* ------------------------------------------------------------------------
\* Bounds of the model
\* ------------------------------------------------------------------------
MaxRows == 2
MaxVocab == 3
MaxGap == 1
MaxCalls == 2
MaxBackward == 1

\* ------------------------------------------------------------------------
\* float32 arithmetic
\* ------------------------------------------------------------------------
ONE == 1000000
LIMB == 1000
LN2 == 693147
NegInf == -2000000000
IGNORE_INDEX == -100
MAX_FUSED_SIZE == 65536

Abs(x) == IF x < 0 THEN -x ELSE x
Sgn(x) == IF x < 0 THEN -1 ELSE 1

\* |a| * |b| / ONE on three-digit limbs (every intermediate fits 32 bits)
MulAbs(a, b) ==
    LET ah == a \div LIMB
        al == a % LIMB
        bh == b \div LIMB
        bl == b % LIMB
    IN  ah * bh + ((ah * bl + al * bh) + ((al * bl) \div LIMB)) \div LIMB

\* float multiply; -inf times a positive finite value is -inf
FMul(x, y) ==
    IF x = NegInf \/ y = NegInf THEN NegInf
    ELSE Sgn(x) * Sgn(y) * MulAbs(Abs(x), Abs(y))

RECURSIVE LongDiv(_, _, _)
LongDiv(r, b, digits) ==
    IF digits = 0 THEN 0
    ELSE LET q == (r * 10) \div b
             rr == (r * 10) % b
             rest == LongDiv(rr, b, digits - 1)
             p == IF digits = 1 THEN 1 ELSE IF digits = 2 THEN 10
                  ELSE IF digits = 3 THEN 100 ELSE IF digits = 4 THEN 1000
                  ELSE IF digits = 5 THEN 10000 ELSE 100000
         IN  q * p + rest

\* |a| / |b| in fixed point, b > 0
DivAbs(a, b) == (a \div b) * ONE + LongDiv(a % b, b, 6)

\* float divide by a positive or negative finite value
FDiv(x, y) ==
    IF x = NegInf THEN NegInf
    ELSE Sgn(x) * Sgn(y) * DivAbs(Abs(x), Abs(y))

\* division of a float by an integer count, truncating
IDiv(x, n) == Sgn(x) * (Abs(x) \div n)

FSub(x, y) == IF x = NegInf THEN NegInf ELSE x - y

RECURSIVE Pow2(_)
Pow2(n) == IF n = 0 THEN 1 ELSE 2 * Pow2(n - 1)

\* e^r for |r| <= ln2/2 : 1 + r(1 + r/2 (1 + r/3 ( ... )))
RECURSIVE ExpSeries(_, _)
ExpSeries(r, k) ==
    IF k > 12 THEN ONE
    ELSE ONE + IDiv(FMul(r, ExpSeries(r, k + 1)), k)

\* tl.exp : exp(-inf) = 0 ; x = n ln2 + r, e^x = 2^n e^r
Exp(x) ==
    IF x = NegInf THEN 0
    ELSE LET n == (x + LN2 \div 2) \div LN2
             r == x - n * LN2
             e == ExpSeries(r, 1)
         IN  IF n >= 0 THEN e * Pow2(n)
             ELSE IF n < -30 THEN 0 ELSE e \div Pow2(-n)

\* log m for m in [1, 2) : 2 atanh((m-1)/(m+1)) = 2 (z + z^3/3 + z^5/5 + ...)
RECURSIVE AtanhSeries(_, _, _)
AtanhSeries(zp, z2, k) ==
    IF k > 15 \/ zp = 0 THEN 0
    ELSE zp \div k + AtanhSeries(FMul(zp, z2), z2, k + 2)

RECURSIVE LogNorm(_, _)
LogNorm(y, n) ==
    IF y >= 2 * ONE THEN LogNorm(y \div 2, n + 1)
    ELSE IF y < ONE THEN LogNorm(y * 2, n - 1)
    ELSE LET z == DivAbs(y - ONE, y + ONE)
         IN  n * LN2 + 2 * AtanhSeries(z, FMul(z, z), 1)

\* tl.log : log(0) = -inf
Log(y) == IF y <= 0 THEN NegInf ELSE LogNorm(y, 0)

\* libdevice.tanh : tanh(-inf) = -1
Tanh(x) ==
    IF x = NegInf THEN -ONE
    ELSE LET e == Exp(-2 * Abs(x))
         IN  Sgn(x) * DivAbs(ONE - e, ONE + e)


\* ------------------------------------------------------------------------
\* calculate_settings
\* ------------------------------------------------------------------------
RECURSIVE PowerOf2AtLeast(_, _)
PowerOf2AtLeast(p, n) == IF p >= n THEN p ELSE PowerOf2AtLeast(2 * p, n)

next_power_of_2(n) == PowerOf2AtLeast(1, n)

ExceedsMaxFusedSizeInclusive(BLOCK_SIZE) == BLOCK_SIZE >= MAX_FUSED_SIZE

ExceedsMaxFusedSize(BLOCK_SIZE) == BLOCK_SIZE > MAX_FUSED_SIZE

NumWarps(BLOCK_SIZE) ==
    IF BLOCK_SIZE >= 32768 THEN 32
    ELSE IF BLOCK_SIZE >= 8192 THEN 16
    ELSE IF BLOCK_SIZE >= 2048 THEN 8
    ELSE 4

\* raised = TRUE stands for the RuntimeError
calculate_settings(n) ==
    LET BLOCK_SIZE == next_power_of_2(n)
    IN  IF ExceedsMaxFusedSize(BLOCK_SIZE)
        THEN [raised |-> TRUE, BLOCK_SIZE |-> 0, num_warps |-> 0]
        ELSE [raised |-> FALSE, BLOCK_SIZE |-> BLOCK_SIZE,
              num_warps |-> NumWarps(BLOCK_SIZE)]

\* ------------------------------------------------------------------------
\* The per-row programs of the two kernels
\* ------------------------------------------------------------------------
Uninit == -2000000001
NaN == -2000000002

RowBaseOverlapping(row_idx, row_stride) == row_idx * (row_stride - 1)

\* logits_ptr += row_idx * logits_row_stride
RowBase(row_idx, row_stride) == row_idx * row_stride

\* mask = col_offsets < VOCAB_SIZE
mask(col, VOCAB_SIZE) == col < VOCAB_SIZE

\* tl.load(logits_ptr + col_offsets, mask = mask, other = -inf)
LoadRow(data, base, VOCAB_SIZE, BLOCK_SIZE) ==
    [col \in 0..(BLOCK_SIZE - 1) |->
        IF mask(col, VOCAB_SIZE) THEN data[base + col] ELSE NegInf]

Scale(x, p) == IF p.DO_LOGIT_SCALING THEN FMul(p.LOGIT_SCALE, x) ELSE x

TanhTerm(x, p) == Tanh(FDiv(x, p.SOFTCAP))

Softcap(x, p) == IF p.DO_SOFTCAPPING THEN FMul(p.SOFTCAP, TanhTerm(x, p)) ELSE x

\* scale first, then softcap of the scaled value
Transform(x, p) == Softcap(Scale(x, p), p)

RECURSIVE RowMax(_, _)
RowMax(x, n) ==
    IF n = 1 THEN x[0]
    ELSE LET m == RowMax(x, n - 1) IN IF x[n - 1] > m THEN x[n - 1] ELSE m

RECURSIVE RowSumExp(_, _, _)
RowSumExp(x, c, n) ==
    IF n = 0 THEN 0 ELSE Exp(FSub(x[n - 1], c)) + RowSumExp(x, c, n - 1)

\* c = tl.max(logits, 0); logsumexp = c + tl.log(tl.sum(tl.exp(logits - c), 0))
StableLogSumExp(x, n) ==
    LET c == RowMax(x, n) IN c + Log(RowSumExp(x, c, n))

\* what one row unit of _cross_entropy_forward stores
ForwardRow(lanes, label_idx, x_label, p, BLOCK_SIZE) ==
    LET logits == [col \in 0..(BLOCK_SIZE - 1) |-> Transform(lanes[col], p)]
        logsumexp == StableLogSumExp(logits, BLOCK_SIZE)
    IN  [logsumexp |-> logsumexp,
         loss |-> IF label_idx # IGNORE_INDEX
                  THEN logsumexp - Transform(x_label, p)
                  ELSE 0]

EffectiveDlossAlwaysLoaded(label_idx, loaded) == loaded

\* dloss = tl.load(dloss_ptr) if label_idx != -100 else 0.0
EffectiveDloss(label_idx, loaded) ==
    IF label_idx # IGNORE_INDEX THEN loaded ELSE 0

\* the value one lane of _cross_entropy_backward computes for column col
BackwardLane(x0, col, label_idx, dloss, logsumexp, p) ==
    LET xs == Scale(x0, p)
        tanh_term == IF p.DO_SOFTCAPPING THEN TanhTerm(xs, p) ELSE xs
        x == IF p.DO_SOFTCAPPING THEN FMul(p.SOFTCAP, tanh_term) ELSE xs
        y0 == Exp(FSub(x, logsumexp))
        y1 == IF col = label_idx THEN y0 - ONE ELSE y0
        y2 == IF p.DO_LOGIT_SCALING THEN FMul(y1, p.LOGIT_SCALE) ELSE y1
        y3 == IF p.DO_SOFTCAPPING
              THEN FMul(y2, ONE - FMul(tanh_term, tanh_term))
              ELSE y2
    IN  FMul(dloss, y3)

BackwardRow(lanes, label_idx, dloss, logsumexp, p, BLOCK_SIZE) ==
    [col \in 0..(BLOCK_SIZE - 1) |->
        BackwardLane(lanes[col], col, label_idx, dloss, logsumexp, p)]

StoreLanesUnmasked(VOCAB_SIZE, BLOCK_SIZE) == 0..(BLOCK_SIZE - 1)

\* tl.store(logits_ptr + col_offsets, dloss * y, mask = mask)
StoreLanes(VOCAB_SIZE, BLOCK_SIZE) ==
    {col \in 0..(BLOCK_SIZE - 1) : mask(col, VOCAB_SIZE)}

StoreRow(data, base, grad, VOCAB_SIZE, BLOCK_SIZE) ==
    [pos \in DOMAIN data |->
        IF pos - base \in StoreLanes(VOCAB_SIZE, BLOCK_SIZE)
        THEN grad[pos - base] ELSE data[pos]]

\* ------------------------------------------------------------------------
\* Inputs
\* ------------------------------------------------------------------------
\* logit_softcapping and logit_scaling: 0 disables, otherwise a positive float
SoftcapValues == {0, 2 * ONE}
ScalingValues == {0, 2 * ONE}

\* n_items = None is 0
NItemsValues == {0, 1}

\* vocabulary sizes: the small ones, and one beyond MAX_FUSED_SIZE
VocabSizes == (1..MaxVocab) \cup {MAX_FUSED_SIZE + 1}

\* arguments of a direct call of calculate_settings
SettingsInputs ==
    {1, MaxVocab, 2047, 2048, 8191, 8192, 32767, 32768,
     MAX_FUSED_SIZE - 1, MAX_FUSED_SIZE, MAX_FUSED_SIZE + 1, 2 * MAX_FUSED_SIZE}

\* torch.randn stand-in: the score at storage position pos
ScoreAt(pos) == (((3 * pos + 1) % 5) - 2) * (ONE \div 2)

\* logits of shape (batch, seq_len, d) whose rows are row_stride apart
LogitsTensors ==
    {[shape |-> <<1, seq_len, d>>, row_stride |-> d + gap,
      data |-> [pos \in 0..(seq_len * (d + gap) - 1) |-> ScoreAt(pos)]] :
        seq_len \in 1..MaxRows, d \in VocabSizes, gap \in 0..MaxGap}

NRows(t) == t.shape[1] * t.shape[2]
VocabSize(t) == t.shape[3]

\* a label is -100 or a class index (one of the first MaxVocab classes)
LabelValues(d) == {IGNORE_INDEX} \cup {l \in 0..(MaxVocab - 1) : l < d}

\* labels of the logits' shape, transposed, or one item short
LabelShapes(t) ==
    {<<t.shape[1], t.shape[2]>>, <<t.shape[2], t.shape[1]>>,
     <<t.shape[1], t.shape[2] - 1>>}

LabelsTensors(t) ==
    {[shape |-> sh, data |-> f] :
        sh \in LabelShapes(t),
        f \in UNION {[0..(n - 1) -> LabelValues(VocabSize(t))] :
                        n \in {NRows(t), NRows(t) - 1}}}

\* upstream gradients: a broadcast scalar (stride 0), a dense vector, and
\* a dense vector one row short
UpstreamGrads(n_rows) ==
    {[n |-> n_rows, stride |-> 0, data |-> [i \in 0..0 |-> ONE \div 2]],
     [n |-> n_rows, stride |-> 1, data |-> [i \in 0..(n_rows - 1) |-> (i + 1) * ONE]],
     [n |-> n_rows - 1, stride |-> 1,
      data |-> [i \in 0..(n_rows - 2) |-> (i + 1) * ONE]]}

\* what a load beyond the end of the upstream-gradient storage may return
GarbageValues == {0, 3 * ONE}

Params(softcap, scaling) ==
    [DO_SOFTCAPPING |-> softcap # 0, SOFTCAP |-> softcap,
     DO_LOGIT_SCALING |-> scaling # 0, LOGIT_SCALE |-> scaling]

NoParams == Params(0, 0)
NoRows == [r \in {} |-> 0]

\* ------------------------------------------------------------------------
\* State
\* ------------------------------------------------------------------------
VARIABLES
    logits,     \* the score tensor (overwritten by the backward kernel)
    labels,     \* the label tensor
    ctxs,       \* the autograd contexts, one per completed forward
    call,       \* the kernel launch in flight
    units,      \* the row units of the launch in flight
    result,     \* what the last call returned
    err,        \* the exception the last call raised
    launches    \* history: what each forward was launched with and stored

vars == <<logits, labels, ctxs, call, units, result, err, launches>>

Idle ==
    [kind |-> "none", ctx |-> 0, p |-> NoParams, BLOCK_SIZE |-> 0, num_warps |-> 0,
     losses |-> NoRows, logsumexp |-> NoRows, dlosses |-> NoRows, dstride |-> 0,
     dn |-> 0, pre |-> NoRows]

NoResult == [kind |-> "none", value |-> 0, n_items |-> 0, grads |-> <<>>]

Rows == 0..(NRows(logits) - 1)

Init ==
    /\ logits \in LogitsTensors
    /\ labels \in LabelsTensors(logits)
    /\ labels.shape[1] * labels.shape[2] = Cardinality(DOMAIN labels.data)
    /\ ctxs = <<>>
    /\ call = Idle
    /\ units = NoRows
    /\ result = NoResult
    /\ err = "none"
    /\ launches = <<>>

BackwardsMade == Cardinality({c \in DOMAIN ctxs : ctxs[c].used})

\* ------------------------------------------------------------------------
\* calculate_settings called on its own
\* (a pure function: applied here before the first forward only)
\* ------------------------------------------------------------------------
CalculateSettings(n) ==
    /\ call.kind = "none"
    /\ ctxs = <<>>
    /\ LET s == calculate_settings(n)
       IN  /\ result' = [NoResult EXCEPT !.kind = "settings", !.value = s.BLOCK_SIZE,
                                          !.n_items = n]
           /\ err' = IF s.raised THEN "RuntimeError" ELSE "none"
    /\ UNCHANGED <<logits, labels, ctxs, call, units, launches>>

\* ------------------------------------------------------------------------
\* fast_cross_entropy_loss -> Fast_CrossEntropyLoss.forward
\* ------------------------------------------------------------------------
\* assert(labels.shape == (batch, seq_len))
LabelsShapeOk == labels.shape = <<logits.shape[1], logits.shape[2]>>

FastCrossEntropyLoss(logit_softcapping, logit_scaling) ==
    /\ call.kind = "none"
    /\ Len(ctxs) < MaxCalls
    /\ result' = NoResult
    /\ IF ~LabelsShapeOk
       THEN /\ err' = "AssertionError"
            /\ UNCHANGED <<logits, labels, ctxs, call, units, launches>>
       ELSE LET s == calculate_settings(VocabSize(logits))
            IN  IF s.raised
                THEN /\ err' = "RuntimeError"
                     /\ UNCHANGED <<logits, labels, ctxs, call, units, launches>>
                ELSE /\ err' = "none"
                     /\ call' = [Idle EXCEPT
                            !.kind = "fwd",
                            !.p = Params(logit_softcapping, logit_scaling),
                            !.BLOCK_SIZE = s.BLOCK_SIZE,
                            !.num_warps = s.num_warps,
                            !.losses = [r \in Rows |-> Uninit],
                            !.logsumexp = [r \in Rows |-> Uninit],
                            !.pre = logits.data]
                     /\ units' = [r \in Rows |-> [pc |-> "load"]]
                     /\ launches' = Append(launches,
                            [p |-> Params(logit_softcapping, logit_scaling),
                             logsumexp |-> NoRows])
                     /\ UNCHANGED <<logits, labels, ctxs>>

\* a row unit of _cross_entropy_forward: its loads
ForwardLoad(row_idx) ==
    /\ call.kind = "fwd"
    /\ row_idx \in DOMAIN units
    /\ units[row_idx].pc = "load"
    /\ LET base == RowBase(row_idx, logits.row_stride)
           label_idx == labels.data[row_idx]
       IN  units' = [units EXCEPT ![row_idx] =
               [pc |-> "store",
                label_idx |-> label_idx,
                lanes |-> LoadRow(logits.data, base, VocabSize(logits), call.BLOCK_SIZE),
                x_label |-> IF label_idx # IGNORE_INDEX
                            THEN logits.data[base + label_idx] ELSE 0]]
    /\ UNCHANGED <<logits, labels, ctxs, call, result, err, launches>>

\* a row unit of _cross_entropy_forward: its two stores
ForwardStore(row_idx) ==
    /\ call.kind = "fwd"
    /\ row_idx \in DOMAIN units
    /\ units[row_idx].pc = "store"
    /\ LET u == units[row_idx]
           out == ForwardRow(u.lanes, u.label_idx, u.x_label, call.p, call.BLOCK_SIZE)
       IN  call' = [call EXCEPT !.logsumexp[row_idx] = out.logsumexp,
                                !.losses[row_idx] = out.loss]
    /\ units' = [units EXCEPT ![row_idx] = [pc |-> "done"]]
    /\ UNCHANGED <<logits, labels, ctxs, result, err, launches>>

RECURSIVE SumRows(_, _)
SumRows(v, n) == IF n = 0 THEN 0 ELSE v[n - 1] + SumRows(v, n - 1)

CountAllLabels(lab) == Cardinality(DOMAIN lab)

\* torch.count_nonzero(labels != -100)
CountNonIgnored(lab) == Cardinality({i \in DOMAIN lab : lab[i] # IGNORE_INDEX})

\* loss.sum() / n_items ; 0.0 / 0 is NaN
Reduce(losses, n_rows, n_items) ==
    IF n_items = 0 THEN NaN ELSE IDiv(SumRows(losses, n_rows), n_items)

\* forward saves its context and returns; fast_cross_entropy_loss reduces
ForwardReturn(n_items) ==
    /\ call.kind = "fwd"
    /\ \A r \in DOMAIN units : units[r].pc = "done"
    /\ ctxs' = Append(ctxs,
           [logsumexp |-> call.logsumexp,
            DO_SOFTCAPPING |-> call.p.DO_SOFTCAPPING,
            logit_softcapping |-> call.p.SOFTCAP,
            DO_LOGIT_SCALING |-> call.p.DO_LOGIT_SCALING,
            logit_scaling |-> call.p.LOGIT_SCALE,
            used |-> FALSE,
            scores |-> call.pre])
    /\ result' = [NoResult EXCEPT
                     !.kind = "loss",
                     !.value = Reduce(call.losses, NRows(logits),
                                  IF n_items = 0 THEN CountNonIgnored(labels.data)
                                  ELSE n_items),
                     !.n_items = n_items]
    /\ call' = [Idle EXCEPT !.losses = call.losses]
    /\ units' = NoRows
    /\ launches' = [launches EXCEPT ![Len(launches)].logsumexp = call.logsumexp]
    /\ UNCHANGED <<logits, labels, err>>

\* ------------------------------------------------------------------------
\* Fast_CrossEntropyLoss.backward
\* ------------------------------------------------------------------------
LatestCtx(c) == ctxs[Len(ctxs)]

\* ctx.saved_tensors and the ctx attributes of the forward being differentiated
SavedCtx(c) == ctxs[c]

Backward(c, dlosses) ==
    /\ call.kind = "none"
    /\ BackwardsMade < MaxBackward
    /\ c \in DOMAIN ctxs
    /\ ~ctxs[c].used
    /\ result' = NoResult
    /\ LET s == calculate_settings(VocabSize(logits))
           ctx == SavedCtx(c)
       IN  IF s.raised
           THEN /\ err' = "RuntimeError"
                /\ UNCHANGED <<logits, labels, ctxs, call, units, launches>>
           ELSE /\ err' = "none"
                /\ call' = [Idle EXCEPT
                       !.kind = "bwd",
                       !.ctx = c,
                       !.p = [DO_SOFTCAPPING |-> ctx.DO_SOFTCAPPING,
                              SOFTCAP |-> ctx.logit_softcapping,
                              DO_LOGIT_SCALING |-> ctx.DO_LOGIT_SCALING,
                              LOGIT_SCALE |-> ctx.logit_scaling],
                       !.BLOCK_SIZE = s.BLOCK_SIZE,
                       !.num_warps = s.num_warps,
                       !.logsumexp = ctx.logsumexp,
                       !.dlosses = dlosses.data,
                       !.dstride = dlosses.stride,
                       !.dn = dlosses.n,
                       !.pre = logits.data]
                /\ units' = [r \in Rows |-> [pc |-> "load"]]
                /\ UNCHANGED <<logits, labels, ctxs, launches>>

\* a row unit of _cross_entropy_backward: its loads; a load beyond the end of
\* the upstream gradient returns whatever is there
BackwardLoad(row_idx, garbage) ==
    /\ call.kind = "bwd"
    /\ row_idx \in DOMAIN units
    /\ units[row_idx].pc = "load"
    /\ LET base == RowBase(row_idx, logits.row_stride)
           label_idx == labels.data[row_idx]
           dpos == row_idx * call.dstride
           inside == dpos \in DOMAIN call.dlosses
           loads == label_idx # IGNORE_INDEX
       IN  /\ (loads /\ ~inside) \/ garbage = 0
           /\ units' = [units EXCEPT ![row_idx] =
                 [pc |-> "store",
                  label_idx |-> label_idx,
                  dloss |-> EffectiveDloss(label_idx,
                              IF inside THEN call.dlosses[dpos] ELSE garbage),
                  lanes |-> LoadRow(logits.data, base, VocabSize(logits),
                                    call.BLOCK_SIZE),
                  logsumexp |-> call.logsumexp[row_idx]]]
    /\ UNCHANGED <<logits, labels, ctxs, call, result, err, launches>>

\* a row unit of _cross_entropy_backward: its masked store over the scores
BackwardStore(row_idx) ==
    /\ call.kind = "bwd"
    /\ row_idx \in DOMAIN units
    /\ units[row_idx].pc = "store"
    /\ LET u == units[row_idx]
           grad == BackwardRow(u.lanes, u.label_idx, u.dloss, u.logsumexp,
                               call.p, call.BLOCK_SIZE)
       IN  logits' = [logits EXCEPT !.data =
               StoreRow(logits.data, RowBase(row_idx, logits.row_stride), grad,
                        VocabSize(logits), call.BLOCK_SIZE)]
    /\ units' = [units EXCEPT ![row_idx] = [pc |-> "done"]]
    /\ UNCHANGED <<labels, ctxs, call, result, err, launches>>

\* return logits, None, None, None
BackwardReturn ==
    /\ call.kind = "bwd"
    /\ \A r \in DOMAIN units : units[r].pc = "done"
    /\ result' = [NoResult EXCEPT !.kind = "grad",
                                  !.grads = <<"logits", "None", "None", "None">>]
    /\ ctxs' = [ctxs EXCEPT ![call.ctx].used = TRUE]
    /\ call' = Idle
    /\ units' = NoRows
    /\ UNCHANGED <<logits, labels, err, launches>>

Next ==
    \/ \E n \in SettingsInputs : CalculateSettings(n)
    \/ \E sc \in SoftcapValues, ls \in ScalingValues : FastCrossEntropyLoss(sc, ls)
    \/ \E r \in 0..(MaxRows - 1) : ForwardLoad(r)
    \/ \E r \in 0..(MaxRows - 1) : ForwardStore(r)
    \/ \E n \in NItemsValues : ForwardReturn(n)
    \/ \E c \in 1..MaxCalls : \E g \in UpstreamGrads(NRows(logits)) : Backward(c, g)
    \/ \E r \in 0..(MaxRows - 1), g \in GarbageValues : BackwardLoad(r, g)
    \/ \E r \in 0..(MaxRows - 1) : BackwardStore(r)
    \/ BackwardReturn

Spec == Init /\ [][Next]_vars

\* ------------------------------------------------------------------------
\* reference_cross_entropy_loss and its gradient (test_cross_entropy)
\* ------------------------------------------------------------------------
\* assert forward_diff < 1e-4 ; assert grad_diff < 1e-4
Tol == ONE \div 10000

\* logits * logit_scaling ; logit_softcapping * tanh(logits / logit_softcapping)
RefTransform(x, p) ==
    LET scaled == IF p.LOGIT_SCALE # 0 THEN FMul(x, p.LOGIT_SCALE) ELSE x
    IN  IF p.SOFTCAP # 0
        THEN FMul(p.SOFTCAP, Tanh(FDiv(scaled, p.SOFTCAP)))
        ELSE scaled

\* the transformed scores of one row of the (cloned) logits
RefRow(data, row, row_stride, d, p) ==
    [i \in 0..(d - 1) |-> RefTransform(data[row * row_stride + i], p)]

RECURSIVE SumExp(_, _)
SumExp(t, n) == IF n = 0 THEN 0 ELSE Exp(t[n - 1]) + SumExp(t, n - 1)

\* torch.nn.functional.log_softmax(logits, dim=-1)
RefLogSoftmax(t, d) == [i \in 0..(d - 1) |-> t[i] - Log(SumExp(t, d))]

\* -log_probs.gather(label) of a row with a valid label
RefRowLoss(data, row, row_stride, d, label, p) ==
    -RefLogSoftmax(RefRow(data, row, row_stride, d, p), d)[label]

\* ref_loss.backward(): d(row loss) / d(logits[row, i])
RefRowGrad(data, row, row_stride, d, label, p, i) ==
    LET x == data[row * row_stride + i]
        scaled == IF p.LOGIT_SCALE # 0 THEN FMul(x, p.LOGIT_SCALE) ELSE x
        softmax == Exp(RefLogSoftmax(RefRow(data, row, row_stride, d, p), d)[i])
        g0 == IF i = label THEN softmax - ONE ELSE softmax
        g1 == IF p.SOFTCAP # 0
              THEN LET th == Tanh(FDiv(scaled, p.SOFTCAP))
                   IN  FMul(g0, ONE - FMul(th, th))
              ELSE g0
    IN  IF p.LOGIT_SCALE # 0 THEN FMul(g1, p.LOGIT_SCALE) ELSE g1

\* ------------------------------------------------------------------------
\* Notions the properties share
\* ------------------------------------------------------------------------
Stride == logits.row_stride
BlockSize == call.BLOCK_SIZE
Done(r) == r \in DOMAIN units /\ units[r].pc = "done"
AllDone == \A r \in DOMAIN units : units[r].pc = "done"
ValidLabel(r) == labels.data[r] # IGNORE_INDEX

\* scores as torch.randn draws them (the kernels are also run over gradients
\* a backward left in the buffer)
ScoreRange == 2 * ONE
InRange(data) == \A pos \in DOMAIN data : Abs(data[pos]) <= ScoreRange

\* the upstream gradient of row r lies inside the supplied vector
DlossInside(r) == r * call.dstride \in DOMAIN call.dlosses /\ r < call.dn

\* the launch in flight pads the row: BLOCK_SIZE > VOCAB_SIZE
Padded == BlockSize > VocabSize(logits)

\* what the forward kernel stores for row r of scores `data`
ForwardOf(data, r, p) ==
    LET base == RowBase(r, Stride)
        label_idx == labels.data[r]
    IN  ForwardRow(LoadRow(data, base, VocabSize(logits), BlockSize), label_idx,
                   IF label_idx # IGNORE_INDEX THEN data[base + label_idx] ELSE 0,
                   p, BlockSize)

\* what the backward kernel stores at column i of row r of scores `data`
BackwardOf(data, r, i, dloss, p) ==
    BackwardLane(data[RowBase(r, Stride) + i], i, labels.data[r],
                 EffectiveDloss(labels.data[r], dloss), call.logsumexp[r], p)

\* ------------------------------------------------------------------------
\* C1
\* ------------------------------------------------------------------------
\* C1: for every row with a valid label, in all four combinations of scaling
\* and softcapping, the loss the forward kernel stores equals
\* logsumexp(T(row)) - T(row[label]), i.e. the reference -log_softmax(T(row))[label]
\* (within the test's tolerance).
C1_LossMatchesReference ==
    \A r \in DOMAIN units :
        (call.kind = "fwd" /\ Done(r) /\ ValidLabel(r) /\ InRange(call.pre))
        => Abs(call.losses[r]
               - RefRowLoss(call.pre, r, Stride, VocabSize(logits),
                            labels.data[r], call.p)) <= Tol

\* The same statement where the row is not padded or softcapping is off: the
\* loss matches the reference there.
C1_LossMatchesReferenceUnpadded ==
    \A r \in DOMAIN units :
        (/\ call.kind = "fwd" /\ Done(r) /\ ValidLabel(r) /\ InRange(call.pre)
         /\ (~Padded \/ ~call.p.DO_SOFTCAPPING))
        => Abs(call.losses[r]
               - RefRowLoss(call.pre, r, Stride, VocabSize(logits),
                            labels.data[r], call.p)) <= Tol

\* ------------------------------------------------------------------------
\* C2
\* ------------------------------------------------------------------------
\* the scores the backward in flight reads are those its forward read
Unmodified == call.pre = ctxs[call.ctx].scores

\* C2: for every row with a valid label and every class i, after the backward
\* kernel the score buffer at (row, i) holds the upstream gradient of the row
\* times the gradient of the reference loss with respect to the original score
\* (within the test's tolerance), in all four combinations.
C2_GradMatchesReference ==
    \A r \in DOMAIN units :
        (/\ call.kind = "bwd" /\ Done(r) /\ ValidLabel(r) /\ DlossInside(r)
         /\ Unmodified /\ InRange(call.pre))
        => \A i \in 0..(VocabSize(logits) - 1) :
              Abs(logits.data[RowBase(r, Stride) + i]
                  - FMul(call.dlosses[r * call.dstride],
                         RefRowGrad(call.pre, r, Stride, VocabSize(logits),
                                    labels.data[r], call.p, i))) <= Tol

\* The same statement where the row is not padded or softcapping is off.
C2_GradMatchesReferenceUnpadded ==
    \A r \in DOMAIN units :
        (/\ call.kind = "bwd" /\ Done(r) /\ ValidLabel(r) /\ DlossInside(r)
         /\ Unmodified /\ InRange(call.pre)
         /\ (~Padded \/ ~call.p.DO_SOFTCAPPING))
        => \A i \in 0..(VocabSize(logits) - 1) :
              Abs(logits.data[RowBase(r, Stride) + i]
                  - FMul(call.dlosses[r * call.dstride],
                         RefRowGrad(call.pre, r, Stride, VocabSize(logits),
                                    labels.data[r], call.p, i))) <= Tol

\* The first half of C2 alone: the buffer holds
\* upstream * (softmax_i - [i = label]) * scale * (1 - tanh^2), with softmax_i
\* taken from the persisted logsumexp.
C2_GradFormula ==
    \A r \in DOMAIN units :
        (call.kind = "bwd" /\ Done(r) /\ ValidLabel(r) /\ DlossInside(r))
        => \A i \in 0..(VocabSize(logits) - 1) :
              LET x == call.pre[RowBase(r, Stride) + i]
                  softmax == Exp(FSub(Transform(x, call.p), call.logsumexp[r]))
                  g0 == IF i = labels.data[r] THEN softmax - ONE ELSE softmax
                  g1 == IF call.p.DO_LOGIT_SCALING
                        THEN FMul(g0, call.p.LOGIT_SCALE) ELSE g0
                  g2 == IF call.p.DO_SOFTCAPPING
                        THEN LET th == TanhTerm(Scale(x, call.p), call.p)
                             IN  FMul(g1, ONE - FMul(th, th))
                        ELSE g1
              IN  logits.data[RowBase(r, Stride) + i]
                    = FMul(call.dlosses[r * call.dstride], g2)

\* ------------------------------------------------------------------------
\* C3
\* ------------------------------------------------------------------------
RECURSIVE SumOver(_, _)
SumOver(S, f) ==
    IF S = {} THEN 0
    ELSE LET r == CHOOSE x \in S : \A y \in S : x <= y
         IN  f[r] + SumOver(S \ {r}, f)

ValidRows == {r \in Rows : ValidLabel(r)}

\* the forward the last result came from
LastForward == launches[Len(launches)]
LastScores == ctxs[Len(ctxs)].scores

\* C3: with n_items not supplied, fast_cross_entropy_loss returns the sum of
\* the per-row losses of the rows labelled other than -100, each computed from
\* that row's scores alone, divided by the number of such rows (0/0 is NaN).
C3_MeanOverNonIgnored ==
    (result.kind = "loss" /\ result.n_items = 0)
    => result.value =
         (IF ValidRows = {} THEN NaN
          ELSE IDiv(SumOver(ValidRows,
                        [r \in Rows |->
                            ForwardRow(
                                LoadRow(LastScores, RowBase(r, Stride),
                                        VocabSize(logits),
                                        next_power_of_2(VocabSize(logits))),
                                labels.data[r],
                                IF ValidLabel(r)
                                THEN LastScores[RowBase(r, Stride) + labels.data[r]]
                                ELSE 0,
                                LastForward.p,
                                next_power_of_2(VocabSize(logits))).loss]),
                    Cardinality(ValidRows)))

\* a loss was returned with n_items inferred, over an ignored and a counted row
C3_Witness ==
    /\ result.kind = "loss" /\ result.n_items = 0
    /\ ValidRows # {} /\ ValidRows # Rows
    /\ result.value > 0

\* ------------------------------------------------------------------------
\* C4
\* ------------------------------------------------------------------------
\* the log-sum-exp of the transformed scores of row r
RowLogSumExp(data, r, p) ==
    Log(SumExp(RefRow(data, r, Stride, VocabSize(logits), p), VocabSize(logits)))

\* C4: for a row labelled -100 the forward kernel stores the loss 0.0 and the
\* log-sum-exp of the row's transformed scores (within the test's tolerance).
C4_IgnoredRowLogSumExp ==
    \A r \in DOMAIN units :
        (call.kind = "fwd" /\ Done(r) /\ ~ValidLabel(r) /\ InRange(call.pre))
        => /\ call.losses[r] = 0
           /\ Abs(call.logsumexp[r] - RowLogSumExp(call.pre, r, call.p)) <= Tol

\* The same statement where the row is not padded or softcapping is off.
C4_IgnoredRowLogSumExpUnpadded ==
    \A r \in DOMAIN units :
        (/\ call.kind = "fwd" /\ Done(r) /\ ~ValidLabel(r) /\ InRange(call.pre)
         /\ (~Padded \/ ~call.p.DO_SOFTCAPPING))
        => /\ call.losses[r] = 0
           /\ Abs(call.logsumexp[r] - RowLogSumExp(call.pre, r, call.p)) <= Tol

\* The rest of C4: an ignored row is handled as a valid row is, but for the
\* loss: the loss stored is 0.0, the logsumexp stored is the value the kernel
\* stores for the same row under a valid label; once the launch is complete,
\* and in every saved context, logsumexp is set for every row.
C4_IgnoredRowForward ==
    /\ \A r \in DOMAIN units :
          (call.kind = "fwd" /\ Done(r) /\ ~ValidLabel(r))
          => /\ call.losses[r] = 0
             /\ call.logsumexp[r] =
                  ForwardRow(LoadRow(call.pre, RowBase(r, Stride), VocabSize(logits),
                                     BlockSize),
                             0, call.pre[RowBase(r, Stride)], call.p, BlockSize).logsumexp
    /\ (call.kind = "fwd" /\ AllDone)
          => \A r \in Rows : call.logsumexp[r] # Uninit
    /\ \A c \in DOMAIN ctxs : \A r \in Rows : ctxs[c].logsumexp[r] # Uninit

\* ------------------------------------------------------------------------
\* C5
\* ------------------------------------------------------------------------
\* C5: for a row labelled -100, after the backward kernel every position in
\* [0, vocab_size) of the row holds gradient 0, whatever upstream gradient was
\* supplied for the row.
C5_IgnoredRowBackward ==
    \A r \in DOMAIN units :
        (call.kind = "bwd" /\ Done(r) /\ ~ValidLabel(r))
        => \A i \in 0..(VocabSize(logits) - 1) :
              logits.data[RowBase(r, Stride) + i] = 0

\* a backward row unit has stored for a row labelled -100 whose supplied
\* upstream gradient and whose scores were not zero
C5_Witness ==
    \E r \in DOMAIN units :
        /\ call.kind = "bwd" /\ Done(r) /\ ~ValidLabel(r)
        /\ DlossInside(r) /\ call.dlosses[r * call.dstride] # 0
        /\ call.pre[RowBase(r, Stride)] # 0

\* ------------------------------------------------------------------------
\* C6
\* ------------------------------------------------------------------------
InitialScores == [pos \in DOMAIN logits.data |-> ScoreAt(pos)]

\* C6: calculate_settings accepts 65536 and raises for every n > 65536 (and
\* only then); with such a vocabulary the wrapper raises before any launch: no
\* kernel is in flight, no context exists and no score has been written.
C6_CeilingBeforeLaunch ==
    /\ result.kind = "settings"
          => /\ (err = "RuntimeError") <=> (result.n_items > MAX_FUSED_SIZE)
             /\ (result.n_items = MAX_FUSED_SIZE)
                   => (err = "none" /\ result.value = MAX_FUSED_SIZE)
    /\ VocabSize(logits) > MAX_FUSED_SIZE
          => (call = Idle /\ units = NoRows /\ ctxs = <<>> /\ launches = <<>>
              /\ logits.data = InitialScores)
    /\ (err = "RuntimeError" /\ result.kind = "none")
          => VocabSize(logits) > MAX_FUSED_SIZE

\* the wrapper raised the RuntimeError for a vocabulary beyond the ceiling
C6_Witness ==
    /\ err = "RuntimeError" /\ result.kind = "none"
    /\ VocabSize(logits) > MAX_FUSED_SIZE
    /\ LabelsShapeOk

\* ------------------------------------------------------------------------
\* C7
\* ------------------------------------------------------------------------
\* C7: no kernel is launched over mismatched buffers: a forward in flight has
\* labels of the scores' shape, and a backward in flight has an upstream
\* gradient of the forward's row count (the mismatch raised instead).
C7_MismatchRaises ==
    /\ call.kind = "fwd" => LabelsShapeOk
    /\ call.kind = "bwd" => call.dn = NRows(logits)

\* The first half of C7 alone: the labels' shape is asserted.
C7_LabelsShapeAsserted ==
    /\ call.kind = "fwd" => LabelsShapeOk
    /\ err = "AssertionError" => (~LabelsShapeOk /\ call = Idle /\ ctxs = <<>>)

\* ------------------------------------------------------------------------
\* C8
\* ------------------------------------------------------------------------
\* C8: a backward in flight runs with the enable flags, the softcap and scale
\* values and the logsumexp vector its own forward was launched with and
\* stored, whatever forwards ran in between; backward returns a gradient for
\* the scores only.
C8_BackwardUsesOwnContext ==
    /\ call.kind = "bwd"
          => /\ call.p = launches[call.ctx].p
             /\ call.logsumexp = launches[call.ctx].logsumexp
    /\ result.kind = "grad"
          => result.grads = <<"logits", "None", "None", "None">>

\* the backward of the first forward is in flight after a second forward with
\* other parameters and another logsumexp
C8_Witness ==
    /\ call.kind = "bwd" /\ call.ctx = 1 /\ Len(ctxs) = 2
    /\ launches[1].p # launches[2].p
    /\ launches[1].logsumexp # launches[2].logsumexp

\* ------------------------------------------------------------------------
\* C9
\* ------------------------------------------------------------------------
InSomeRow(pos) ==
    \E r \in Rows : pos - RowBase(r, Stride) \in 0..(VocabSize(logits) - 1)

\* every row's upstream gradient lies inside the supplied vector
WellFormedUpstream == \A r \in Rows : DlossInside(r)

\* C9: when all row units of a launch have finished, in whatever order their
\* loads and stores ran, the loss and logsumexp vectors (forward) and the
\* gradient matrix (backward) are those of the rows computed one by one from
\* the buffers as they were at launch; positions outside every row are as
\* at launch.
C9_RowOrderIndependent ==
    /\ (call.kind = "fwd" /\ AllDone)
          => \A r \in Rows :
                /\ call.losses[r] = ForwardOf(call.pre, r, call.p).loss
                /\ call.logsumexp[r] = ForwardOf(call.pre, r, call.p).logsumexp
    /\ (call.kind = "bwd" /\ AllDone /\ WellFormedUpstream)
          => /\ \A r \in Rows : \A i \in 0..(VocabSize(logits) - 1) :
                   logits.data[RowBase(r, Stride) + i] =
                      BackwardOf(call.pre, r, i, call.dlosses[r * call.dstride],
                                 call.p)
             /\ \A pos \in DOMAIN logits.data :
                   ~InSomeRow(pos) => logits.data[pos] = call.pre[pos]

\* a backward launch of two or more row units is complete and wrote gradients
C9_Witness ==
    /\ call.kind = "bwd" /\ AllDone /\ WellFormedUpstream
    /\ NRows(logits) >= 2
    /\ \A r \in Rows : logits.data[RowBase(r, Stride)] # call.pre[RowBase(r, Stride)]

\* ------------------------------------------------------------------------
\* C10
\* ------------------------------------------------------------------------
\* C10: a step changes a score element only if it is a step of the backward
\* kernel and the element lies in [0, vocab_size) of a launched row; the
\* forward kernel changes no score and, per step, only loss[row] and
\* logsumexp[row] of one row; no step changes the labels, and the backward
\* kernel changes neither the logsumexp nor the upstream gradient it reads.
C10_Frame ==
    [][ /\ labels' = labels
        /\ logits' # logits
              => /\ call.kind = "bwd"
                 /\ logits'.shape = logits.shape
                 /\ logits'.row_stride = logits.row_stride
                 /\ DOMAIN logits'.data = DOMAIN logits.data
                 /\ \A pos \in DOMAIN logits.data :
                       logits'.data[pos] # logits.data[pos] => InSomeRow(pos)
        /\ (call.kind = "fwd" /\ call'.kind = "fwd")
              => \E row \in Rows : \A r \in Rows :
                    r # row => /\ call'.losses[r] = call.losses[r]
                               /\ call'.logsumexp[r] = call.logsumexp[r]
        /\ (call.kind = "bwd" /\ call'.kind = "bwd")
              => /\ call'.logsumexp = call.logsumexp
                 /\ call'.dlosses = call.dlosses
                 /\ ctxs' = ctxs
      ]_vars

\* a backward row unit has stored into a padded row that is followed by a gap
C10_Witness ==
    \E r \in DOMAIN units :
        /\ call.kind = "bwd" /\ Done(r) /\ Padded /\ Stride > VocabSize(logits)
        /\ logits.data # call.pre
====
